---- MODULE Spec2Model ----
(***************************************************************************)
(* A model of four parts of DLpy:                                          *)
(*   ops/matrix.py         Transpose and the comparison operations         *)
(*   nn/base/dropout.py    Dropout                                         *)
(*   core/serialization.py ModelSaver                                      *)
(* Each part has its own specification over the shared variables; the      *)
(* variables of the other parts stay at their initial values.              *)
(***************************************************************************)
EXTENDS Integers, Sequences, FiniteSets, TLC

\* ------------------------------------------------------------------ bounds
\* Largest number of axes of a tensor given to Transpose.
MaxRank == 3
\* Largest extent of one axis.
MaxDim == 2
\* Largest factor of an upstream gradient handed to a backward call.
MaxGrad == 2
\* Largest number of axes of the tensor shared by two Transpose calls.
AccRank == 2

VARIABLES
    \* ---- ops/matrix.py, Transpose
    x,          \* the input tensor: [shape, data, requires_grad]
    ctx,        \* per invocation: the Context that forward filled
    fwd,        \* per invocation: "idle", "ok" (returned) or "raised"
    out,        \* per invocation: <<>> or <<the returned tensor's array>>
    bwd,        \* per invocation: "idle", "ok" or "raised"
    gout,       \* per invocation: <<>> or <<grad_output of the backward call>>
    grad_dict,  \* tensor id -> accumulated gradient array
    \* ---- ops/matrix.py, the comparison operations
    cmp_ctx,        \* the Context handed to forward and backward
    cmp_args,       \* <<>> or <<the last forward call's op, x1, x2>>
    cmp_out,        \* <<>> or <<the tensor the last forward call returned>>
    cmp_grad_dict,  \* the grad_dict handed to backward
    cmp_bwd,        \* <<>> or <<the last backward call's op and grad_output>>
    \* ---- nn/base/dropout.py, Dropout
    drop,       \* the module: [p, inplace, training]
    drop_args,  \* <<>> or <<the last forward call's input data and random draws>>
    drop_x,     \* <<>> or <<the caller's tensor after the call>>
    drop_out,   \* <<>> or <<the tensor the call returned>>
    \* ---- core/serialization.py, ModelSaver
    model,      \* the live model: a chain of modules, each with a parameter and a buffer
    optim,      \* the live optimizer's state
    step,       \* number of in-place updates made so far
    sd,         \* <<>> or <<the mapping get_state_dict returned to the caller>>
    expect,     \* what the caller wrote: into the model, and into the returned mapping
    fs,         \* the files written: file name -> content
    saved,      \* <<>> or <<the arguments and model values of the last save>>
    res,        \* <<>> or <<the outcome of the load that was the last call>>
    namespaces  \* the names DLpy.nn and __main__ define when load_model runs

tvars == <<x, ctx, fwd, out, bwd, gout, grad_dict>>
cvars == <<cmp_ctx, cmp_args, cmp_out, cmp_grad_dict, cmp_bwd>>
dvars == <<drop, drop_args, drop_x, drop_out>>

svars == <<model, optim, step, sd, expect, fs, saved, res, namespaces>>

vars == <<tvars, cvars, dvars, svars>>

\* ----------------------------------------------------------------- arrays
\* An n-dimensional array is [shape |-> <<d1..dn>>, data |-> index -> value];
\* an index is a tuple of 0-based positions, one per axis.
Indices(shape) ==
    { idx \in [1..Len(shape) -> 0..(MaxDim - 1)] :
        \A i \in 1..Len(shape) : idx[i] < shape[i] }

RECURSIVE LinIdx(_, _, _)
\* Row-major position of idx in an array of the given shape, from axis i on.
LinIdx(shape, idx, i) ==
    IF i > Len(shape) THEN 0
    ELSE LET rest == LinIdx(shape, idx, i + 1)
             RECURSIVE Stride(_)
             Stride(j) == IF j > Len(shape) THEN 1 ELSE shape[j] * Stride(j + 1)
         IN  idx[i] * Stride(i + 1) + rest

\* The array of the given shape whose element at row-major position k is c*(k+1).
Ramp(shape, c) ==
    [shape |-> shape,
     data  |-> [idx \in Indices(shape) |-> c * (LinIdx(shape, idx, 1) + 1)]]

\* The shapes of the input tensors tried: n axes of non-decreasing extent (the
\* permutations of the axes give the other orders).
Shapes(n) == { s \in [1..n -> 1..MaxDim] : \A i \in 1..(n - 1) : s[i] <= s[i + 1] }

\* numpy's validation of the axes argument of transpose for an array of n axes:
\* the length must be n, each axis within -n..n-1, and no axis repeated once
\* negative axes are counted from the end.
NormAxis(a, n) == IF a < 0 THEN a + n ELSE a

NpAxesOk_NoRepeatCheck(axes, n) ==
    /\ Len(axes) = n
    /\ \A i \in 1..Len(axes) : axes[i] >= -n /\ axes[i] < n

NpAxesOk(axes, n) ==
    /\ Len(axes) = n
    /\ \A i \in 1..Len(axes) : axes[i] >= -n /\ axes[i] < n
    /\ \A i, j \in 1..Len(axes) :
          i # j => NormAxis(axes[i], n) # NormAxis(axes[j], n)

\* np.transpose(a, axes) for accepted axes: axis i of the result is axis
\* axes[i] of a.
NpTranspose(a, axes) ==
    LET n     == Len(a.shape)
        m     == Len(axes)
        p     == [i \in 1..m |-> NormAxis(axes[i], n) + 1]
        shape == [i \in 1..m |-> IF p[i] \in 1..n THEN a.shape[p[i]] ELSE 1]
        from  == [j \in 1..n |-> IF \E i \in 1..m : p[i] = j
                                  THEN CHOOSE i \in 1..m : p[i] = j ELSE 0]
        src(idx) == [j \in 1..n |-> IF from[j] = 0 THEN 0 ELSE idx[from[j]]]
    IN  [shape |-> shape,
         data  |-> [idx \in Indices(shape) |-> a.data[src(idx)]]]

\* np.transpose(a) with no axes: the axes reversed.
Reversed(n) == [i \in 1..n |-> n - i]

NpTransposeNone(a) == NpTranspose(a, Reversed(Len(a.shape)))

\* np.argsort(axes): the 0-based positions of axes in ascending order of value
\* (equal values keep their order, as numpy's sort of a short array does).
NpArgsort(axes) ==
    LET n == Len(axes)
        before(j, k) == axes[j] < axes[k] \/ (axes[j] = axes[k] /\ j < k)
        rank(k) == Cardinality({ j \in 1..n : before(j, k) }) + 1
    IN  [i \in 1..n |-> (CHOOSE k \in 1..n : rank(k) = i) - 1]

\* ------------------------------------------------------ Transpose (matrix.py)
NoAxes == [none |-> TRUE, val |-> <<>>]
SomeAxes(t) == [none |-> FALSE, val |-> t]

XId == 1
Edges == {1, 2}

EmptyCtx == [saved_tensors |-> <<>>, saved_arguments |-> <<>>]

\* Whether np.transpose in forward accepts the call.
ForwardAccepts(t, axes) == axes.none \/ NpAxesOk(axes.val, Len(t.shape))

\* Transpose.forward: the Context is filled before numpy sees the axes.
Transpose_forward(k, axes) ==
    /\ fwd[k] = "idle"
    /\ ctx' = [ctx EXCEPT ![k] = [saved_tensors   |-> <<XId>>,
                                  saved_arguments |-> <<axes>>]]
    /\ IF ForwardAccepts(x, axes)
       THEN /\ fwd' = [fwd EXCEPT ![k] = "ok"]
            /\ out' = [out EXCEPT ![k] =
                         <<IF axes.none THEN NpTransposeNone(x)
                           ELSE NpTranspose(x, axes.val)>>]
       ELSE /\ fwd' = [fwd EXCEPT ![k] = "raised"]
            /\ out' = out
    /\ UNCHANGED <<x, bwd, gout, grad_dict, cvars, dvars, svars>>

\* The permutation backward applies to grad_output.
BackwardAxes(axes) == NpArgsort(axes)

\* The gradient backward computes for x from grad_output g.
Contribution(c, g) ==
    LET axes == c.saved_arguments[1]
    IN  IF axes.none THEN NpTransposeNone(g)
        ELSE NpTranspose(g, BackwardAxes(axes.val))

\* Whether a numpy call of backward raises.
BackwardRaises(c, g) ==
    LET axes == c.saved_arguments[1]
    IN  ~axes.none /\ ~NpAxesOk(BackwardAxes(axes.val), Len(g.shape))

\* grad_dict after backward has assigned entry id.
WriteGrad(gd, id, a) ==
    [i \in DOMAIN gd \cup {id} |-> IF i = id THEN a ELSE gd[i]]

\* Transpose.backward, called by the engine with the gradient of the output
\* the forward call returned.
Transpose_backward(k, g) ==
    /\ fwd[k] = "ok"
    /\ bwd[k] = "idle"
    /\ g.shape = out[k][1].shape
    /\ gout' = [gout EXCEPT ![k] = <<g>>]
    /\ IF x.requires_grad
       THEN IF BackwardRaises(ctx[k], g)
            THEN /\ bwd' = [bwd EXCEPT ![k] = "raised"]
                 /\ grad_dict' = grad_dict
            ELSE /\ bwd' = [bwd EXCEPT ![k] = "ok"]
                 /\ grad_dict' = WriteGrad(grad_dict, XId, Contribution(ctx[k], g))
       ELSE /\ bwd' = [bwd EXCEPT ![k] = "ok"]
            /\ grad_dict' = grad_dict
    /\ UNCHANGED <<x, ctx, fwd, out, cvars, dvars, svars>>

\* The permutations of 0..n-1, as tuples.
Perms(n) == { u \in [1..n -> 0..(n - 1)] : \A i, j \in 1..n : i # j => u[i] # u[j] }

\* The axes arguments tried on a tensor of n axes: none; every permutation,
\* each axis written from the front or (negative) from the end; every
\* permutation with one position replaced by any value of -n-1..n (a repeated
\* or out-of-range axis, or the same axis again); and the permutations of one
\* axis fewer and one more.
AxesInputs(n) ==
    {NoAxes}
    \cup { SomeAxes([i \in 1..n |-> IF i \in neg THEN u[i] - n ELSE u[i]]) :
             u \in Perms(n), neg \in SUBSET (1..n) }
    \cup { SomeAxes([u EXCEPT ![i] = v]) :
             u \in Perms(n), i \in 1..n, v \in (-n - 1)..n }
    \cup { SomeAxes(u) : u \in Perms(n + 1) }
    \cup { SomeAxes(u) : u \in IF n = 0 THEN {} ELSE Perms(n - 1) }

GradOutputs(shape) == { Ramp(shape, c) : c \in 1..MaxGrad }

IdleTranspose ==
    /\ x = [shape |-> <<>>, data |-> Ramp(<<>>, 1).data, requires_grad |-> FALSE]
    /\ ctx = [k \in Edges |-> EmptyCtx]
    /\ fwd = [k \in Edges |-> "idle"]
    /\ out = [k \in Edges |-> <<>>]
    /\ bwd = [k \in Edges |-> "idle"]
    /\ gout = [k \in Edges |-> <<>>]
    /\ grad_dict = <<>>

InitTensor(maxrank) ==
    /\ x \in { [shape |-> s, data |-> Ramp(s, 1).data, requires_grad |-> r] :
                 s \in UNION { Shapes(n) : n \in 0..maxrank }, r \in BOOLEAN }
    /\ ctx = [k \in Edges |-> EmptyCtx]
    /\ fwd = [k \in Edges |-> "idle"]
    /\ out = [k \in Edges |-> <<>>]
    /\ bwd = [k \in Edges |-> "idle"]
    /\ gout = [k \in Edges |-> <<>>]
    /\ grad_dict = <<>>


\* ------------------------------------------- comparison operations (matrix.py)
\* Values compared, ids and gradients of the grad_dict handed to backward.
MaxCmpVal == 1

CmpOps == {"Greater", "GreaterEqual", "Less", "LessEqual", "Equal", "NotEqual"}

\* Tensor(data): a new tensor, which does not require gradient unless asked to.
Tensor(data) == [is_tensor |-> TRUE, data |-> data, requires_grad |-> FALSE]

\* A raw scalar or array handed where a tensor is accepted.
Raw(data) == [is_tensor |-> FALSE, data |-> data, requires_grad |-> FALSE]

\* The numpy function each operation's forward hands to _compare.
NpCompare(op, a, b) ==
    CASE op = "Greater"      -> a > b
      [] op = "GreaterEqual" -> a >= b
      [] op = "Less"         -> a < b
      [] op = "LessEqual"    -> a <= b
      [] op = "Equal"        -> a = b
      [] op = "NotEqual"     -> a # b

\* Compare._compare: both operands wrapped into tensors, the result a new tensor.
Compare_compare(op, x1, x2) ==
    LET t1 == IF x1.is_tensor THEN x1 ELSE Tensor(x1.data)
        t2 == IF x2.is_tensor THEN x2 ELSE Tensor(x2.data)
    IN  Tensor(NpCompare(op, t1.data, t2.data))

\* forward of Greater .. NotEqual, called once with its Context: ctx is not used.
Compare_forward(op, x1, x2) ==
    /\ cmp_args = <<>>
    /\ cmp_args' = <<[op |-> op, x1 |-> x1, x2 |-> x2]>>
    /\ cmp_out' = <<Compare_compare(op, x1, x2)>>
    /\ UNCHANGED <<cmp_ctx, cmp_grad_dict, cmp_bwd, tvars, dvars, svars>>

\* What Compare.backward leaves in grad_dict: its body is a docstring alone.
Compare_backward_grad_dict_Writes(gd, g) ==
    [i \in DOMAIN gd \cup {XId} |-> g]

Compare_backward_grad_dict(gd, g) == gd

\* Compare.backward, inherited by the six operations: called once, by the
\* engine, for the invocation that forward recorded.
Compare_backward(op, g) ==
    /\ cmp_args # <<>>
    /\ cmp_args[1].op = op
    /\ cmp_bwd = <<>>
    /\ cmp_bwd' = <<[op |-> op, grad_output |-> g, raised |-> FALSE]>>
    /\ cmp_grad_dict' = Compare_backward_grad_dict(cmp_grad_dict, g)
    /\ UNCHANGED <<cmp_ctx, cmp_args, cmp_out, tvars, dvars, svars>>

CmpVals == (-MaxCmpVal)..MaxCmpVal

CmpOperands ==
    { Raw(v) : v \in CmpVals }
    \cup { [is_tensor |-> TRUE, data |-> v, requires_grad |-> r] :
             v \in CmpVals, r \in BOOLEAN }

\* The Contexts handed in: a fresh one, or one an earlier call filled.
CmpContexts ==
    { EmptyCtx, [saved_tensors |-> <<XId>>, saved_arguments |-> <<NoAxes>>] }

CmpGradDicts == UNION { [ids -> 1..MaxGrad] : ids \in SUBSET {XId, XId + 1} }

IdleCompare ==
    /\ cmp_ctx = EmptyCtx
    /\ cmp_args = <<>>
    /\ cmp_out = <<>>
    /\ cmp_grad_dict = <<>>
    /\ cmp_bwd = <<>>

InitCompare ==
    /\ cmp_ctx \in CmpContexts
    /\ cmp_args = <<>>
    /\ cmp_out = <<>>
    /\ cmp_grad_dict \in CmpGradDicts
    /\ cmp_bwd = <<>>

\* ------------------------------------------------------- Dropout (dropout.py)
\* Probabilities and random draws are multiples of 1/PDen; a draw is one of
\* 0/PDen .. (PDen-1)/PDen, the values of [0, 1) at this resolution.
PDen == 4
\* Largest number of elements of the input tensor, and largest input value.
MaxLen == 2
MaxX == 1

\* A number is a fraction [n, d] with d > 0.
Frac(n, d) == [n |-> n, d |-> d]
FracEq(a, b) == a.n * b.d = b.n * a.d
FracMul(a, b) == Frac(a.n * b.n, a.d * b.d)

\* (np.random.rand(...) > self.p).astype(np.float64), one element.
DropMask(draw, p) == IF draw > p THEN Frac(1, 1) ELSE Frac(0, 1)

\* scale = 1.0 / (1.0 - self.p) if self.p != 1.0 else 0.0, with p = p/PDen.
DropScale(p) == IF p # PDen THEN Frac(PDen, PDen - p) ELSE Frac(0, 1)

\* Dropout.forward on a tensor of data xs, with the draws numpy made.
Dropout_forward(xs, rg, draws) ==
    /\ Len(draws) = Len(xs)
    /\ drop_args' = <<[data |-> xs, draws |-> draws]>>
    /\ LET t    == [data |-> xs, requires_grad |-> rg]
           mask == [i \in 1..Len(xs) |-> FracMul(DropMask(draws[i], drop.p), DropScale(drop.p))]
           prod == [i \in 1..Len(xs) |-> FracMul(xs[i], mask[i])]
       IN  IF drop.training
           THEN IF drop.inplace
                THEN /\ drop_x' = <<[t EXCEPT !.data = prod]>>
                     /\ drop_out' = drop_x'
                ELSE /\ drop_x' = <<t>>
                     /\ drop_out' = <<[data |-> prod, requires_grad |-> rg]>>
           ELSE /\ drop_x' = <<t>>
                /\ drop_out' = <<t>>
    /\ UNCHANGED <<drop, tvars, cvars, svars>>

DropInputs ==
    UNION { [1..n -> { Frac(v, 1) : v \in (-MaxX)..MaxX }] : n \in 1..MaxLen }

DropDraws(n) == [1..n -> 0..(PDen - 1)]

IdleDropout ==
    /\ drop = [p |-> 0, inplace |-> FALSE, training |-> TRUE]
    /\ drop_args = <<>>
    /\ drop_x = <<>>
    /\ drop_out = <<>>

\* Dropout(p, inplace) with an accepted p, in training or in evaluation mode.
InitDropout ==
    /\ drop \in [p : 0..PDen, inplace : BOOLEAN, training : BOOLEAN]
    /\ drop_args = <<>>
    /\ drop_x = <<>>
    /\ drop_out = <<>>
\* ------------------------------------------------- ModelSaver (serialization.py)
\* Deepest nesting of submodules, largest number of in-place updates.
MaxDepth == 2
MaxSteps == 2
\* Deepest nesting of submodules of the models saved to checkpoints and files.
SavedDepth == 1
\* Largest number of suffixes of a path argument, and of files written.
MaxSuffixes == 2
MaxFiles == 1

\* The model is a chain of modules 0 (the model itself) .. depth, module i+1
\* registered on module i as "sub". Every module registers a parameter "w" and
\* a buffer "running", each None (<<>>) or a tensor with an array (<<value>>).
Modules(m) == 0..m.depth

Prefix(i) == [j \in 1..i |-> "sub"]
ParamName(i) == Prefix(i) \o <<"w">>
BufferName(i) == Prefix(i) \o <<"running">>

RECURSIVE NamedParametersFrom(_, _)
NamedParametersFrom(m, i) ==
    IF i > m.depth THEN {}
    ELSE {[name |-> ParamName(i), kind |-> "w", mod |-> i]}
         \cup NamedParametersFrom(m, i + 1)

\* Module.named_parameters: the parameters of the module and, recursively, of
\* its submodules, under dotted names.
NamedParameters(m) == NamedParametersFrom(m, 0)

\* model._buffers.items(): the buffers registered on the model itself.
BufferItems(m) == { [name |-> BufferName(0), kind |-> "running", mod |-> 0] }

\* An entry of a state dict: the array object of a leaf of the model (alias),
\* or an array of its own.
ArrayOf(leaf) == [alias |-> TRUE, kind |-> leaf.kind, mod |-> leaf.mod, val |-> 0]
OwnArray(v) == [alias |-> FALSE, kind |-> "", mod |-> 0, val |-> v]

Deref(m, e) == IF e.alias THEN m[e.kind][e.mod][1] ELSE e.val

\* ModelSaver.get_state_dict: name -> param.data / buffer.data.
get_state_dict_OwnParametersOnly(m) ==
    LET ps    == { e \in NamedParameters(m) : e.mod = 0 /\ m.w[e.mod] # <<>> }
        bs    == { e \in BufferItems(m) : m.running[e.mod] # <<>> }
        names == { e.name : e \in ps \cup bs }
    IN  [nm \in names |->
           IF \E e \in bs : e.name = nm
           THEN ArrayOf(CHOOSE e \in bs : e.name = nm)
           ELSE ArrayOf(CHOOSE e \in ps : e.name = nm)]

get_state_dict(m) ==
    LET ps    == { e \in NamedParameters(m) : m.w[e.mod] # <<>> }
        bs    == { e \in BufferItems(m) : m.running[e.mod] # <<>> }
        names == { e.name : e \in ps \cup bs }
    IN  [nm \in names |->
           IF \E e \in bs : e.name = nm
           THEN ArrayOf(CHOOSE e \in bs : e.name = nm)
           ELSE ArrayOf(CHOOSE e \in ps : e.name = nm)]

\* What pickle.dump and np.savez write for a state dict: the arrays' values.
Serialized(m, d) == [nm \in DOMAIN d |-> Deref(m, d[nm])]

\* Module.load_state_dict: every entry that names a leaf of the model
\* overwrites that leaf's array in place.
Module_load_state_dict(m, vals) ==
    [m EXCEPT
       !.w = [i \in Modules(m) |->
                IF ParamName(i) \in DOMAIN vals /\ m.w[i] # <<>>
                THEN <<vals[ParamName(i)]>> ELSE m.w[i]],
       !.running = [i \in Modules(m) |->
                IF BufferName(i) \in DOMAIN vals /\ m.running[i] # <<>>
                THEN <<vals[BufferName(i)]>> ELSE m.running[i]]]

NoExpect == [model |-> <<>>, sd |-> <<>>]

\* An in-place update of the array of one leaf of the model (param.data[...] = v).
ModelInPlace(kind, i, v) ==
    /\ step < MaxSteps
    /\ i \in Modules(model)
    /\ model[kind][i] # <<>>
    /\ model' = [model EXCEPT ![kind][i] = <<v>>]
    /\ step' = step + 1
    /\ expect' = IF sd = <<>> THEN expect
                 ELSE [expect EXCEPT !.model[kind][i] = <<v>>]
    /\ res' = <<>>
    /\ UNCHANGED <<optim, sd, fs, saved, namespaces, tvars, cvars, dvars>>

\* An optimizer step: every parameter and running statistic updated in place.
TrainStep ==
    /\ step < MaxSteps
    /\ step' = step + 1
    /\ model' = [model EXCEPT
         !.w = [i \in Modules(model) |->
                  IF model.w[i] = <<>> THEN <<>> ELSE <<step + 1>>],
         !.running = [i \in Modules(model) |->
                  IF model.running[i] = <<>> THEN <<>> ELSE <<step + 1>>]]
    /\ optim' = [state |-> step + 1]
    /\ res' = <<>>
    /\ UNCHANGED <<sd, expect, fs, saved, namespaces, tvars, cvars, dvars>>

\* The caller calls ModelSaver.get_state_dict(model) and keeps the result.
GetStateDict ==
    /\ sd' = <<get_state_dict(model)>>
    /\ expect' = [model |-> model, sd |-> Serialized(model, sd'[1])]
    /\ res' = <<>>
    /\ UNCHANGED <<model, optim, step, fs, saved, namespaces, tvars, cvars, dvars>>

\* An in-place update of an array of the returned mapping (d[name][...] = v).
ReturnedInPlace(nm, v) ==
    /\ step < MaxSteps
    /\ sd # <<>>
    /\ nm \in DOMAIN sd[1]
    /\ step' = step + 1
    /\ LET e == sd[1][nm]
       IN  IF e.alias
           THEN /\ model' = [model EXCEPT ![e.kind][e.mod] = <<v>>]
                /\ sd' = sd
           ELSE /\ model' = model
                /\ sd' = <<[sd[1] EXCEPT ![nm] = OwnArray(v)]>>
    /\ expect' = [expect EXCEPT !.sd[nm] = v]
    /\ res' = <<>>
    /\ UNCHANGED <<optim, fs, saved, namespaces, tvars, cvars, dvars>>
\* ---- checkpoints
None == <<>>
Some(v) == <<v>>

NoDict == [none |-> TRUE, map |-> <<>>]
Dict(f) == [none |-> FALSE, map |-> f]

\* additional_data or {}
AdditionalDataOrEmpty(ad) == IF ad.none \/ ad.map = <<>> THEN Dict(<<>>) ELSE ad

CheckpointPath == <<"ckpt">>

\* ModelSaver.save_checkpoint(path, model, optimizer, epoch, loss, additional_data);
\* optimizer is the live optimizer or None.
save_checkpoint(path, with_optimizer, epoch, loss, additional_data) ==
    /\ LET checkpoint ==
             [model_state_dict     |-> Serialized(model, get_state_dict(model)),
              optimizer_state_dict |-> IF with_optimizer THEN Some(optim) ELSE None,
              epoch                |-> epoch,
              loss                 |-> loss,
              additional_data      |-> AdditionalDataOrEmpty(additional_data)]
       IN  fs' = [f \in DOMAIN fs \cup {path} |-> IF f = path THEN checkpoint ELSE fs[f]]
    /\ saved' = <<[path |-> path, epoch |-> epoch, loss |-> loss,
                   additional_data |-> additional_data, w |-> model.w,
                   step |-> step]>>
    /\ res' = <<>>
    /\ UNCHANGED <<model, optim, step, sd, expect, namespaces, tvars, cvars, dvars>>

\* ModelSaver.load_checkpoint(path, model, optimizer).
load_checkpoint(path, with_optimizer) ==
    /\ IF path \in DOMAIN fs
       THEN LET checkpoint == fs[path]
            IN  /\ model' = Module_load_state_dict(model, checkpoint.model_state_dict)
                /\ optim' = IF with_optimizer /\ checkpoint.optimizer_state_dict # None
                            THEN checkpoint.optimizer_state_dict[1] ELSE optim
                /\ res' = <<[op |-> "load_checkpoint", status |-> "ok", path |-> path,
                             epoch |-> checkpoint.epoch,
                             loss |-> checkpoint.loss,
                             additional_data |-> checkpoint.additional_data]>>
       ELSE /\ res' = <<[op |-> "load_checkpoint", status |-> "raised", path |-> path,
                         error |-> "FileNotFoundError"]>>
            /\ UNCHANGED <<model, optim>>
    /\ UNCHANGED <<step, sd, expect, fs, saved, namespaces, tvars, cvars, dvars>>

\* The values a training loop hands to save_checkpoint after `step` updates.
EpochInputs == {None, Some(step)}
LossInputs == {None, Some(MaxSteps - step)}
AdditionalDataInputs == {NoDict, Dict(<<>>), Dict([k \in {"note"} |-> step])}

\* ---- state-dict archives
\* A path is its name split at the dots: <<stem, suffix, ..>>.
PathSuffix(p) == IF Len(p) > 1 THEN p[Len(p)] ELSE ""

\* Path.with_suffix: the last suffix replaced, or the suffix added.
WithSuffix(p, suffix) ==
    IF Len(p) > 1 THEN SubSeq(p, 1, Len(p) - 1) \o <<suffix>> ELSE p \o <<suffix>>

\* The file np.savez writes to: ".npz" is appended unless the name ends with it.
NpSavezFile(p) == IF PathSuffix(p) = "npz" THEN p ELSE p \o <<"npz">>

\* The file load_state_dict opens.
LoadStateDictFile(p) == IF PathSuffix(p) # "npz" THEN WithSuffix(p, "npz") ELSE p

\* ModelSaver.save_state_dict(model, path).
save_state_dict(path) ==
    /\ Cardinality(DOMAIN fs \cup {NpSavezFile(path)}) <= MaxFiles
    /\ LET state_dict == Serialized(model, get_state_dict(model))
           file       == NpSavezFile(path)
       IN  /\ fs' = [f \in DOMAIN fs \cup {file} |-> IF f = file THEN state_dict ELSE fs[f]]
           /\ saved' = <<[path |-> path, file |-> file, state_dict |-> state_dict]>>
    /\ res' = <<>>
    /\ UNCHANGED <<model, optim, step, sd, expect, namespaces, tvars, cvars, dvars>>

\* ModelSaver.load_state_dict(model, path).
load_state_dict(path) ==
    /\ LET file == LoadStateDictFile(path)
       IN  IF file \in DOMAIN fs
           THEN /\ model' = Module_load_state_dict(model, fs[file])
                /\ res' = <<[op |-> "load_state_dict", status |-> "ok",
                             path |-> path, file |-> file]>>
           ELSE /\ model' = model
                /\ res' = <<[op |-> "load_state_dict", status |-> "raised",
                             path |-> path, file |-> file]>>
    /\ UNCHANGED <<optim, step, sd, expect, fs, saved, namespaces, tvars, cvars, dvars>>

Suffixes == {"npz", "pt"}

PathInputs ==
    { <<"m">> \o t : t \in UNION { [1..n -> Suffixes] : n \in 0..MaxSuffixes } }

\* ---- full models
ClassNames == {"Net", "Linear"}

ModelPath == <<"model">>

\* The class a namespace holds under a name.
ClassIn(origin, name) == [origin |-> origin, name |-> name]

\* load_model's search for the class: custom_classes, then DLpy.nn, then __main__.
ResolveClass_NnFirst(name, custom_classes) ==
    IF name \in namespaces.nn THEN Some(ClassIn("nn", name))
    ELSE IF ~custom_classes.none /\ name \in DOMAIN custom_classes.map
    THEN Some(custom_classes.map[name])
    ELSE IF name \in namespaces.main THEN Some(ClassIn("main", name))
    ELSE None

ResolveClass(name, custom_classes) ==
    LET first  == IF /\ ~custom_classes.none
                     /\ custom_classes.map # <<>>
                     /\ name \in DOMAIN custom_classes.map
                  THEN Some(custom_classes.map[name]) ELSE None
        second == IF first # None THEN first
                  ELSE IF name \in namespaces.nn THEN Some(ClassIn("nn", name))
                  ELSE IF name \in namespaces.main THEN Some(ClassIn("main", name))
                  ELSE None
    IN  second

\* ModelSaver.save_model(model, path).
save_model(path) ==
    /\ LET state ==
             [model_class |-> model.cls,
              model_dict  |-> model,
              state_dict  |-> Serialized(model, get_state_dict(model)),
              modules     |-> [nm \in IF model.depth > 0 THEN {"sub"} ELSE {} |-> "Module"]]
       IN  fs' = [f \in DOMAIN fs \cup {path} |-> IF f = path THEN state ELSE fs[f]]
    /\ saved' = <<[path |-> path, model_class |-> model.cls]>>
    /\ res' = <<>>
    /\ UNCHANGED <<model, optim, step, sd, expect, namespaces, tvars, cvars, dvars>>
\* ModelSaver.load_model(path, custom_classes): the returned model is in res.
load_model(path, custom_classes) ==
    /\ IF path \notin DOMAIN fs
       THEN res' = <<[op |-> "load_model", status |-> "raised",
                      custom_classes |-> custom_classes,
                      error |-> [type |-> "FileNotFoundError", message |-> <<>>],
                      model |-> None]>>
       ELSE LET state       == fs[path]
                model_class == ResolveClass(state.model_class, custom_classes)
            IN  IF model_class = None
                THEN res' = <<[op |-> "load_model", status |-> "raised",
                               custom_classes |-> custom_classes,
                               error |-> [type |-> "ValueError",
                                          message |-> <<"Unknown model class: ",
                                                        state.model_class>>],
                               model |-> None]>>
                ELSE res' = <<[op |-> "load_model", status |-> "ok",
                               custom_classes |-> custom_classes,
                               error |-> [type |-> "", message |-> <<>>],
                               model |-> Some(
                                 [class |-> model_class[1],
                                  tree  |-> Module_load_state_dict(state.model_dict,
                                                                   state.state_dict)])]>>
    /\ UNCHANGED <<model, optim, step, sd, expect, fs, saved, namespaces,
                   tvars, cvars, dvars>>

\* The registries a caller hands to load_model: none, or a dict from some of
\* the names to the caller's own classes.
CustomClassesInputs ==
    {NoDict} \cup { Dict([n \in ns |-> ClassIn("custom", n)]) : ns \in SUBSET ClassNames }

\* The models tried: every chain of up to maxdepth submodules, each parameter
\* and buffer either None or a fresh array.
ModelInputs(classes, maxdepth) ==
    UNION { [depth : {d}, cls : classes,
             w : [0..d -> {None, Some(0)}],
             running : [0..d -> {None, Some(0)}]] : d \in 0..maxdepth }

IdleSaver ==
    /\ model = [depth |-> 0, cls |-> "Net", w |-> [i \in {0} |-> None],
                running |-> [i \in {0} |-> None]]
    /\ optim = [state |-> 0]
    /\ step = 0
    /\ sd = <<>>
    /\ expect = NoExpect
    /\ fs = <<>>
    /\ saved = <<>>
    /\ res = <<>>
    /\ namespaces = [nn |-> {}, main |-> {}]

InitSaver(classes, maxdepth, spaces) ==
    /\ model \in ModelInputs(classes, maxdepth)
    /\ optim = [state |-> 0]
    /\ step = 0
    /\ sd = <<>>
    /\ expect = NoExpect
    /\ fs = <<>>
    /\ saved = <<>>
    /\ res = <<>>
    /\ namespaces \in spaces

\* ---------------------------------------------------------- specifications
\* One Transpose invocation, with any axes argument.
InitTranspose == InitTensor(MaxRank) /\ IdleCompare /\ IdleDropout /\ IdleSaver

NextTranspose ==
    \/ /\ fwd[1] = "idle"
       /\ \E axes \in AxesInputs(Len(x.shape)) : Transpose_forward(1, axes)
    \/ /\ fwd[1] = "ok"
       /\ \E g \in GradOutputs(out[1][1].shape) : Transpose_backward(1, g)

SpecTranspose == InitTranspose /\ [][NextTranspose]_vars

\* Two Transpose invocations on the same tensor, sharing one grad_dict.
InitAccum == InitTensor(AccRank) /\ IdleCompare /\ IdleDropout /\ IdleSaver

NextAccum ==
    \/ \E k \in Edges :
          /\ fwd[k] = "idle"
          /\ \E axes \in AxesInputs(Len(x.shape)) : Transpose_forward(k, axes)
    \/ \E k \in Edges :
          /\ fwd[k] = "ok"
          /\ \E g \in GradOutputs(out[k][1].shape) : Transpose_backward(k, g)

SpecAccum == InitAccum /\ [][NextAccum]_vars

\* Forward and backward calls of the six comparison operations.
InitComparison == IdleTranspose /\ InitCompare /\ IdleDropout /\ IdleSaver

NextComparison ==
    \/ /\ cmp_args = <<>>
       /\ \E op \in CmpOps, x1 \in CmpOperands, x2 \in CmpOperands :
             Compare_forward(op, x1, x2)
    \/ /\ cmp_bwd = <<>>
       /\ \E op \in CmpOps, g \in 1..MaxGrad : Compare_backward(op, g)

SpecComparison == InitComparison /\ [][NextComparison]_vars

\* Forward calls of one Dropout module.
InitDrop == IdleTranspose /\ IdleCompare /\ InitDropout /\ IdleSaver

NextDrop ==
    \E xs \in DropInputs, rg \in BOOLEAN :
       \E draws \in DropDraws(Len(xs)) : Dropout_forward(xs, rg, draws)

SpecDropout == InitDrop /\ [][NextDrop]_vars

NoNamespaces == {[nn |-> {}, main |-> {}]}

InitOther == IdleTranspose /\ IdleCompare /\ IdleDropout

\* get_state_dict and in-place updates of the arrays on both sides.
InitStateDict == InitOther /\ InitSaver({"Net"}, MaxDepth, NoNamespaces)

NextStateDict ==
    \/ GetStateDict
    \/ \E kind \in {"w", "running"}, i \in 0..MaxDepth, v \in 1..MaxSteps :
          ModelInPlace(kind, i, v)
    \/ /\ sd # <<>>
       /\ \E nm \in DOMAIN sd[1], v \in 1..MaxSteps : ReturnedInPlace(nm, v)

SpecStateDict == InitStateDict /\ [][NextStateDict]_vars

\* Training with checkpoints saved and loaded.
InitCheckpoint == InitOther /\ InitSaver({"Net"}, SavedDepth, NoNamespaces)

NextCheckpoint ==
    \/ TrainStep
    \/ \E o \in BOOLEAN, epoch \in EpochInputs, loss \in LossInputs,
          ad \in AdditionalDataInputs :
          save_checkpoint(CheckpointPath, o, epoch, loss, ad)
    \/ \E o \in BOOLEAN : load_checkpoint(CheckpointPath, o)

SpecCheckpoint == InitCheckpoint /\ [][NextCheckpoint]_vars

\* Training with state-dict archives saved and loaded.
InitArchive == InitOther /\ InitSaver({"Net"}, MaxDepth, NoNamespaces)

NextArchive ==
    \/ TrainStep
    \/ \E path \in PathInputs : save_state_dict(path)
    \/ \E path \in PathInputs : load_state_dict(path)

SpecArchive == InitArchive /\ [][NextArchive]_vars

\* A full model saved, and loaded where DLpy.nn and __main__ define any of the names.
InitLoadModel ==
    InitOther /\ InitSaver(ClassNames, SavedDepth,
                            [nn : SUBSET ClassNames, main : SUBSET ClassNames])

NextLoadModel ==
    \/ save_model(ModelPath)
    \/ \E custom_classes \in CustomClassesInputs : load_model(ModelPath, custom_classes)

SpecLoadModel == InitLoadModel /\ [][NextLoadModel]_vars

\* ------------------------------------------------------------------ claims
\* The saved axes of invocation k, and the input's number of axes.
SavedAxes(k) == ctx[k].saved_arguments[1]
XRank == Len(x.shape)
XArray == [shape |-> x.shape, data |-> x.data]

\* Elementwise sum of two arrays of one shape.
ArrAdd(a, b) ==
    [shape |-> a.shape, data |-> [idx \in DOMAIN a.data |-> a.data[idx] + b.data[idx]]]

\* C1: when both backward calls of two Transpose invocations on the same
\* tensor x (requires_grad true) have run on the same grad_dict, in either
\* order, grad_dict[id(x)] is the sum of the two contributions (stated for
\* contributions of one shape, which can be added).
C1_TransposeBackwardAccumulates ==
    (x.requires_grad /\ bwd[1] = "ok" /\ bwd[2] = "ok") =>
        LET c1 == Contribution(ctx[1], gout[1][1])
            c2 == Contribution(ctx[2], gout[2][1])
        IN  c1.shape = c2.shape =>
               /\ XId \in DOMAIN grad_dict
               /\ grad_dict[XId] = ArrAdd(c1, c2)

\* The permutation a forward call applies, axes counted from the front.
ForwardPerm(axes, n) ==
    IF axes.none THEN Reversed(n) ELSE [i \in 1..n |-> NormAxis(axes.val[i], n)]

\* The inverse of a permutation p of 0..n-1.
InversePerm(p) == [j \in 1..Len(p) |-> (CHOOSE i \in 1..Len(p) : p[i] = j - 1) - 1]

\* C2: for every axes value forward accepts, what backward writes for x is
\* grad_output permuted by the inverse of the forward permutation: it has x's
\* shape, and the permutation backward uses takes transpose(x, axes) back to x.
C2_BackwardAppliesInverse ==
    (x.requires_grad /\ fwd[1] = "ok" /\ bwd[1] # "idle") =>
        LET axes == SavedAxes(1)
            inv  == InversePerm(ForwardPerm(axes, XRank))
        IN  /\ bwd[1] = "ok"
            /\ XId \in DOMAIN grad_dict
            /\ grad_dict[XId] = NpTranspose(gout[1][1], inv)
            /\ grad_dict[XId].shape = x.shape
            /\ Contribution(ctx[1], out[1][1]) = XArray

\* Whether axes names each of the n axes exactly once (negative axes counted
\* from the end).
IsBijection(axes, n) ==
    /\ Len(axes) = n
    /\ \A i \in 1..Len(axes) : axes[i] \in (-n)..(n - 1)
    /\ { NormAxis(axes[i], n) : i \in 1..Len(axes) } = 0..(n - 1)

\* C3: an axes tuple that is no bijection over the input's axes makes forward
\* raise and return no tensor; no backward call raises, and backward accepts
\* every permutation a successful forward saved.
C3_InvalidAxesFailAtForward ==
    \A k \in Edges :
        /\ (fwd[k] # "idle" /\ ~SavedAxes(k).none
              /\ ~IsBijection(SavedAxes(k).val, XRank))
             => (fwd[k] = "raised" /\ out[k] = <<>>)
        /\ fwd[k] = "raised" => bwd[k] = "idle"
        /\ bwd[k] # "raised"
        /\ fwd[k] = "ok" =>
             \A g \in GradOutputs(out[k][1].shape) : ~BackwardRaises(ctx[k], g)

\* C3's case: forward was given a repeated axis for a tensor of two axes, and
\* raised.
C3_Witness_Rejected ==
    /\ fwd[1] = "raised"
    /\ XRank = 2
    /\ SavedAxes(1).val = <<1, 1>>

\* C4: backward of a comparison returns without raising and leaves grad_dict
\* as it was; forward leaves the Context as it was and returns a tensor that
\* does not require gradient, whatever its inputs require.
C4_ComparisonsDropGradient ==
    [][ /\ cmp_grad_dict' = cmp_grad_dict
        /\ cmp_ctx' = cmp_ctx
        /\ cmp_out' # <<>> => ~cmp_out'[1].requires_grad
        /\ cmp_bwd' # <<>> => ~cmp_bwd'[1].raised ]_vars

\* C4's case: both inputs require gradient, grad_dict holds entries, and
\* backward has returned.
C4_Witness_BackwardReturned ==
    /\ cmp_bwd # <<>>
    /\ cmp_args[1].x1.requires_grad /\ cmp_args[1].x2.requires_grad
    /\ DOMAIN cmp_grad_dict = {XId, XId + 1}
    /\ cmp_out # <<>>

\* C5: for every draw of [0, 1): with p = 0 the output equals the input in
\* training and in evaluation mode; with p = 1 the training output is all zero;
\* in evaluation mode the output equals the input.
C5_DropoutBoundary ==
    drop_out # <<>> =>
        LET xs == drop_args[1].data
            ys == drop_out[1].data
            same == Len(ys) = Len(xs) /\ \A i \in 1..Len(xs) : FracEq(ys[i], xs[i])
            zero == \A i \in 1..Len(ys) : ys[i].n = 0
        IN  /\ drop.p = 0 => same
            /\ (drop.p = PDen /\ drop.training) => zero
            /\ ~drop.training => same

\* C6: the mapping get_state_dict returns has an entry for every parameter
\* and every buffer that is not None, of the model and of each submodule.
C6_StateDictComplete ==
    sd # <<>> =>
        \A i \in Modules(model) :
            /\ model.w[i] # None => ParamName(i) \in DOMAIN sd[1]
            /\ model.running[i] # None => BufferName(i) \in DOMAIN sd[1]

\* C7: the arrays of the returned mapping are copies: an in-place update of a
\* model array leaves the mapping as the caller last wrote it, and an in-place
\* update of an array of the mapping leaves the model as the caller last wrote it.
C7_StateDictHoldsCopies ==
    sd # <<>> =>
        /\ Serialized(model, sd[1]) = expect.sd
        /\ model = expect.model

\* Whether the last call was a load_checkpoint that read the saved file.
CheckpointLoaded == res # <<>> /\ res[1].op = "load_checkpoint" /\ res[1].status = "ok"

ParametersRestored == model.w = saved[1].w

\* C8 as stated: after save_checkpoint and load_checkpoint of the same path,
\* every parameter has its value of save time and the returned epoch, loss and
\* additional_data equal the values passed to save_checkpoint, None included.
C8_CheckpointRoundTrip ==
    CheckpointLoaded =>
        /\ ParametersRestored
        /\ res[1].epoch = saved[1].epoch
        /\ res[1].loss = saved[1].loss
        /\ res[1].additional_data = saved[1].additional_data

\* C8 as amended: the same, but additional_data comes back as an empty mapping
\* when it was omitted or None.
C8_CheckpointRoundTrip_NoneAsEmpty ==
    CheckpointLoaded =>
        /\ ParametersRestored
        /\ res[1].epoch = saved[1].epoch
        /\ res[1].loss = saved[1].loss
        /\ res[1].additional_data =
              IF saved[1].additional_data.none THEN Dict(<<>>)
              ELSE saved[1].additional_data

\* C8's case: a checkpoint of a model with a submodule, saved without epoch and
\* additional_data, loaded after the parameters were updated again.
C8_Witness_LoadedAfterTraining ==
    /\ CheckpointLoaded
    /\ model.depth > 0 /\ model.w[1] # None /\ model.w[0] # None
    /\ step > saved[1].step
    /\ saved[1].additional_data.none
    /\ saved[1].epoch = None
    /\ saved[1].loss # None

\* C9: load_state_dict with the path argument of the last save_state_dict
\* opens the file the save wrote, and the model then holds every saved array.
C9_ArchiveRoundTrip ==
    (res # <<>> /\ res[1].op = "load_state_dict" /\ saved # <<>>
       /\ res[1].path = saved[1].path) =>
        /\ res[1].status = "ok"
        /\ res[1].file = saved[1].file
        /\ Serialized(model, get_state_dict(model)) = saved[1].state_dict

\* C10: load_model takes the class from custom_classes if it holds the saved
\* name, else from DLpy.nn if it does, else from __main__ if it does; if none
\* does it raises a ValueError naming the saved name and returns no model.
C10_ClassResolutionOrder ==
    (res # <<>> /\ res[1].op = "load_model" /\ saved # <<>>) =>
        LET name   == saved[1].model_class
            custom == res[1].custom_classes
            r      == res[1]
        IN  IF ~custom.none /\ name \in DOMAIN custom.map
            THEN r.status = "ok" /\ r.model[1].class = custom.map[name]
            ELSE IF name \in namespaces.nn
            THEN r.status = "ok" /\ r.model[1].class = ClassIn("nn", name)
            ELSE IF name \in namespaces.main
            THEN r.status = "ok" /\ r.model[1].class = ClassIn("main", name)
            ELSE /\ r.status = "raised"
                 /\ r.error.type = "ValueError"
                 /\ \E i \in 1..Len(r.error.message) : r.error.message[i] = name
                 /\ r.model = None

\* C10's case: all three sources hold the saved name and the caller's class won.
C10_Witness_CustomWins ==
    /\ res # <<>> /\ res[1].op = "load_model" /\ res[1].status = "ok"
    /\ saved[1].model_class \in namespaces.nn \cap namespaces.main
    /\ res[1].model[1].class.origin = "custom"

====
